---- MODULE Spec2Model ----
(***************************************************************************)
(* The freeing-bump allocator of core/executor/src/heap.rs: a bump cursor, *)
(* 22 power-of-two size classes with inline LIFO free lists, an accounting *)
(* total and a ledger of live pointers, over a fixed byte buffer.          *)
(*                                                                         *)
(* One state is the Heap struct between two calls.  A Rust panic (a failed *)
(* assert, an index past the end of the Vec) ends the run: status leaves   *)
(* "ok", the fields keep what the handler had written before the panic,    *)
(* and no further call is made.                                            *)
(***************************************************************************)
EXTENDS Integers, Sequences, FiniteSets, TLC

\* ---------------------------------------------------------------- constants

ALIGNMENT == 8

N == 22

MAX_POSSIBLE_ALLOCATION == 16777216

\* ------------------------------------------------------------------- bounds

\* The largest heap_size handed to Heap::new.
MaxHeapSize == 64

\* The heap sizes tried: the 16-byte heap of should_not_allocate_if_full, one
\* that is no multiple of a block size, and the largest.
HeapSizes == {16, 40, MaxHeapSize}

\* The ptr_offset arguments tried: aligned, and the odd 13 of the tests.
PtrOffsets == {0, 13}

\* The sizes requested: 0 and 1 (raised to 8), 9 (16), 17 (32), 42 (64), the
\* largest allowed request and the first one refused outright.
Sizes == {0, 1, 9, 17, 42, MAX_POSSIBLE_ALLOCATION, MAX_POSSIBLE_ALLOCATION + 1}

VARIABLES
    allocated_ptrs,  \* Heap.allocated_ptrs: the keys of the HashMap
    bumper,          \* Heap.bumper
    heads,           \* Heap.heads: [u32; N]
    heap,            \* Heap.heap: Vec<u8> of heap_size bytes
    max_heap_size,   \* Heap.max_heap_size
    ptr_offset,      \* Heap.ptr_offset, after padding
    total_size,      \* Heap.total_size
    status,          \* "ok", or the panic that ended the run
    call,            \* the last call: its name, argument, size class, return value
    item_sizes,      \* history: live pointer -> the item_size it was allocated with
    freed,           \* history: class -> header offsets freed and not handed out
                     \*          again, oldest first
    refused          \* history: some allocate has returned 0

vars == <<allocated_ptrs, bumper, heads, heap, max_heap_size, ptr_offset,
          total_size, status, call, item_sizes, freed, refused>>

\* ------------------------------------------------------------ pure helpers

\* `x as u32`: the low 32 bits (two 16-bit halves, so that no intermediate
\* value leaves the checker's integers).
AsU32(x) ==
    IF x \div 65536 < 65536 THEN x
    ELSE (x % 65536) + 65536 * ((x \div 65536) % 65536)

RECURSIVE Pow2From(_, _)
Pow2From(p, n) == IF p >= n THEN p ELSE Pow2From(2 * p, n)

\* usize::next_power_of_two
NextPowerOfTwo(n) == Pow2From(1, n)

RECURSIVE TrailingZeros(_)
\* usize::trailing_zeros, for n > 0
TrailingZeros(n) == IF n % 2 = 1 THEN 0 ELSE 1 + TrailingZeros(n \div 2)

RECURSIVE Shl(_, _)
\* x << k
Shl(x, k) == IF k = 0 THEN x ELSE Shl(2 * x, k - 1)

\* Heap::get_item_size_from_index
GetItemSizeFromIndex(index) == Shl(Shl(1, 3), index)

\* Mutant: the four bytes stored highest first.
U32ToLeBytes_BigEndian(v) ==
    <<(v \div 16777216) % 256, (v \div 65536) % 256, (v \div 256) % 256, v % 256>>

\* The four bytes write_u32_into_le_bytes stores, lowest first.
U32ToLeBytes(v) ==
    <<v % 256, (v \div 256) % 256, (v \div 65536) % 256, (v \div 16777216) % 256>>

\* Heap::write_u32_into_le_bytes(bytes, &mut hp[at..at + 4])
WriteU32IntoLeBytes(hp, v, at) ==
    [k \in DOMAIN hp |->
        IF k >= at /\ k < at + 4 THEN U32ToLeBytes(v)[k - at + 1] ELSE hp[k]]

\* Heap::le_bytes_to_u32(&mut hp[at..at + 4])
LeBytesToU32(hp, at) ==
    hp[at] + 256 * hp[at + 1] + 65536 * hp[at + 2] + 16777216 * hp[at + 3]

\* ------------------------------------------------------------ construction

\* Mutant: the offset taken as given, without padding.
PaddedOffset_NoPadding(offset) == offset

\* The padding Heap::new adds to ptr_offset.
PaddedOffset(offset) ==
    LET padding == offset % ALIGNMENT
    IN  IF padding # 0 THEN offset + (ALIGNMENT - padding) ELSE offset

Init ==
    \E offset \in PtrOffsets, heap_size \in HeapSizes :
        /\ allocated_ptrs = {}
        /\ bumper = 0
        /\ heads = [i \in 0..(N - 1) |-> 0]
        /\ heap = [k \in 0..(heap_size - 1) |-> 0]
        /\ max_heap_size = heap_size
        /\ ptr_offset = PaddedOffset(offset)
        /\ total_size = 0
        /\ status = "ok"
        /\ call = [op |-> "new", arg |-> offset, list_index |-> -1, ret |-> 0]
        /\ item_sizes = [p \in {} |-> 0]
        /\ freed = [i \in 0..(N - 1) |-> << >>]
        /\ refused = FALSE

\* ---------------------------------------------------------------- allocate

\* `if size < 8 { 8 } else { size }`
EffectiveSize(size) == IF size < 8 THEN 8 ELSE size

\* `size.next_power_of_two()` of the effective size
ItemSize(size) == NextPowerOfTwo(EffectiveSize(size))

\* `(item_size.trailing_zeros() - 3) as usize`
ListIndex(item_size) == TrailingZeros(item_size) - 3

\* `size > MAX_POSSIBLE_ALLOCATION`
TooLarge(size) == size > MAX_POSSIBLE_ALLOCATION

\* Mutant: the gate also holds the bump cursor to the end of the buffer.
GateFails_ChecksBumper(item_size) ==
    \/ item_size + 8 + total_size > max_heap_size
    \/ bumper + item_size + 8 > max_heap_size

\* Mutant: the gate forgets the 8-byte header.
GateFails_NoHeader(item_size) == item_size + total_size > max_heap_size

\* `item_size + 8 + self.total_size > self.max_heap_size`
GateFails(item_size) == item_size + 8 + total_size > max_heap_size

\* Mutant: the cursor advances by the payload alone.
Bump_NoHeader(n) == bumper + n - 8

\* Heap::bump: the cursor after reserving n bytes (the value returned is the
\* cursor before).
Bump(n) == bumper + n

\* Mutant: the head is left on the popped block.
PoppedHead_NoPop(item) == item

\* The head of list list_index after the pop: the link stored in the popped
\* block's first four bytes.
PoppedHead(item) == LeBytesToU32(heap, item)

\* Mutant: the loop stops one byte short.
SentinelOffsets_Short == 1..6

\* `for i in 1..8`: the distances below ptr that get the 0xFF sentinel.
SentinelOffsets == 1..7

\* The buffer after `for i in 1..8 { heap[ptr - i] = 255 }` and
\* `heap[ptr - 8] = list_index as u8`.
WriteHeader(hp, ptr, list_index) ==
    [k \in DOMAIN hp |->
        IF k = ptr - 8 THEN list_index % 256
        ELSE IF (ptr - k) \in SentinelOffsets THEN 255
        ELSE hp[k]]

\* `self.total_size + item_size + 8`
TotalAfterAllocate(item_size) == total_size + item_size + 8

\* Mutant: the block's bytes are counted before the request is refused.
AllocateReturnsZero_Counted(size) ==
    /\ call' = [op |-> "allocate", arg |-> size, list_index |-> -1, ret |-> 0]
    /\ refused' = TRUE
    /\ total_size' = total_size + 8
    /\ UNCHANGED <<allocated_ptrs, bumper, heads, heap, max_heap_size,
                   ptr_offset, status, item_sizes, freed>>

\* The early `return 0` of allocate: nothing but the return value changes.
AllocateReturnsZero(size) ==
    /\ call' = [op |-> "allocate", arg |-> size, list_index |-> -1, ret |-> 0]
    /\ refused' = TRUE
    /\ UNCHANGED <<allocated_ptrs, bumper, heads, heap, max_heap_size,
                   ptr_offset, total_size, status, item_sizes, freed>>

\* allocate past the capacity gate.
AllocateBlock(size) ==
    LET item_size  == ItemSize(size)
        list_index == ListIndex(item_size)
        from_list  == heads[list_index] # 0
        item       == heads[list_index]
        ptr        == IF from_list THEN item + 8 ELSE bumper + 8
        heads1     == IF from_list
                      THEN [heads EXCEPT ![list_index] = PoppedHead(item)]
                      ELSE heads
        bumper1    == IF from_list THEN bumper ELSE Bump(item_size + 8)
        heap1      == WriteHeader(heap, ptr, list_index)
        total1     == TotalAfterAllocate(item_size)
        freed1     == IF from_list
                      THEN [freed EXCEPT ![list_index] =
                               SelectSeq(@, LAMBDA h : h # item)]
                      ELSE freed
        panicked(why) ==
            /\ status' = why
            /\ call' = [op |-> "allocate", arg |-> size,
                        list_index |-> list_index, ret |-> 0]
    IN  /\ UNCHANGED <<max_heap_size, ptr_offset, refused>>
        /\ IF from_list /\ item + 4 > max_heap_size
           THEN \* the slice heap[item..item + 4] is out of range
                /\ panicked("panic: index out of bounds")
                /\ UNCHANGED <<allocated_ptrs, bumper, heads, heap,
                               total_size, item_sizes, freed>>
           ELSE IF ptr - 1 >= max_heap_size
           THEN \* heap[ptr - 1] is out of range: the first sentinel write
                /\ panicked("panic: index out of bounds")
                /\ heads' = heads1
                /\ bumper' = bumper1
                /\ UNCHANGED <<allocated_ptrs, heap, total_size, item_sizes,
                               freed>>
           ELSE IF ptr \in allocated_ptrs
           THEN \* assert_eq!(self.allocated_ptrs.get(&ptr), None, ...)
                /\ panicked("panic: Double allocate")
                /\ heads' = heads1
                /\ bumper' = bumper1
                /\ heap' = heap1
                /\ total_size' = total1
                /\ UNCHANGED <<allocated_ptrs, item_sizes, freed>>
           ELSE /\ heads' = heads1
                /\ bumper' = bumper1
                /\ heap' = heap1
                /\ total_size' = total1
                /\ allocated_ptrs' = allocated_ptrs \cup {ptr}
                /\ item_sizes' = [p \in allocated_ptrs \cup {ptr} |->
                                     IF p = ptr THEN item_size ELSE item_sizes[p]]
                /\ freed' = freed1
                /\ status' = "ok"
                /\ call' = [op |-> "allocate", arg |-> size,
                            list_index |-> list_index,
                            ret |-> AsU32(ptr_offset + ptr)]

\* Heap::allocate(size)
Allocate(size) ==
    /\ status = "ok"
    /\ IF TooLarge(size) THEN AllocateReturnsZero(size)
       ELSE IF GateFails(ItemSize(size)) THEN AllocateReturnsZero(size)
       ELSE AllocateBlock(size)

AllocateAny == \E size \in Sizes : Allocate(size)

\* -------------------------------------------------------------- deallocate

\* `for i in 1..8 { assert!(self.heap[ptr - i] == 255); }`
SentinelIntact(ptr) == \A i \in 1..7 : heap[ptr - i] = 255

\* Mutant: the head is set to the payload, not the header.
PushedHead_Payload(ptr) == AsU32(ptr)

\* The list head after the push: `(ptr - 8) as u32`.
PushedHead(ptr) == AsU32(ptr - 8)

\* Mutant: the header's 8 bytes are not given back.
TotalAfterDeallocate_NoHeader(item_size) ==
    IF total_size >= item_size THEN total_size - item_size ELSE 0

\* `self.total_size.checked_sub(item_size + 8).unwrap_or(0)`
TotalAfterDeallocate(item_size) ==
    IF total_size >= item_size + 8 THEN total_size - (item_size + 8) ELSE 0

\* Mutant: the ledger is not consulted.
InLedger_Unchecked(handle) == handle >= ptr_offset

\* Whether deallocate(handle) gets past `assert_ne!(self.allocated_ptrs
\* .get(&ptr), None, ...)`.
InLedger(handle) == handle >= ptr_offset /\ (handle - ptr_offset) \in allocated_ptrs

\* deallocate of a pointer the ledger holds.
DeallocateBlock(handle) ==
    LET ptr == handle - ptr_offset
        list_index == heap[ptr - 8]
        tail == heads[list_index]
        item_size == GetItemSizeFromIndex(list_index)
        panicked(why) ==
            /\ status' = why
            /\ call' = [op |-> "deallocate", arg |-> handle,
                        list_index |-> -1, ret |-> 0]
            /\ UNCHANGED <<allocated_ptrs, bumper, heads, heap, total_size,
                           item_sizes, freed>>
    IN  IF ptr < 8 \/ ptr - 1 >= max_heap_size
        THEN \* heap[ptr - 8] or heap[ptr - 1] is out of range
             panicked("panic: index out of bounds")
        ELSE IF ~SentinelIntact(ptr)
        THEN panicked("panic: sentinel")
        ELSE IF list_index >= N
        THEN \* heads[list_index] is out of range
             panicked("panic: index out of bounds")
        ELSE /\ heads' = [heads EXCEPT ![list_index] = PushedHead(ptr)]
             /\ heap' = WriteU32IntoLeBytes(heap, tail, ptr - 8)
             /\ allocated_ptrs' = allocated_ptrs \ {ptr}
             /\ total_size' = TotalAfterDeallocate(item_size)
             /\ item_sizes' = [p \in allocated_ptrs \ {ptr} |-> item_sizes[p]]
             /\ freed' = [freed EXCEPT ![ListIndex(item_sizes[ptr])] =
                             Append(@, ptr - 8)]
             /\ status' = "ok"
             /\ call' = [op |-> "deallocate", arg |-> handle,
                         list_index |-> list_index, ret |-> 0]
             /\ UNCHANGED bumper

\* Heap::deallocate(handle)
Deallocate(handle) ==
    /\ status = "ok"
    /\ UNCHANGED <<max_heap_size, ptr_offset, refused>>
    /\ IF InLedger(handle) THEN DeallocateBlock(handle)
       ELSE \* `ptr -= self.ptr_offset` below zero panics where overflow is
            \* checked and wraps to a pointer no ledger holds where it is
            \* not; a pointer the ledger lacks fails the assert_ne!.
            /\ status' \in (IF handle < ptr_offset
                            THEN {"panic: subtract with overflow",
                                  "panic: Double free"}
                            ELSE {"panic: Double free"})
            /\ call' = [op |-> "deallocate", arg |-> handle,
                        list_index |-> -1, ret |-> 0]
            /\ UNCHANGED <<allocated_ptrs, bumper, heads, heap, total_size,
                           item_sizes, freed>>

\* The handles a caller may pass: the live ones (the contract), the ones it
\* has freed and not been handed again (a double free), and two it never got.
Handles ==
    {ptr_offset + p : p \in allocated_ptrs}
    \cup UNION {{ptr_offset + freed[i][k] + 8 : k \in 1..Len(freed[i])} :
                   i \in 0..(N - 1)}
    \cup {0, 8}

DeallocateAny == \E handle \in Handles : Deallocate(handle)

Next == AllocateAny \/ DeallocateAny

Spec == Init /\ [][Next]_vars

\* ------------------------------------------------------- shared definitions

RECURSIVE SumOfBlocks(_)
\* The sum of item_size + 8 over the pointers in S, by the sizes they were
\* allocated with.
SumOfBlocks(S) ==
    IF S = {} THEN 0
    ELSE LET p == CHOOSE q \in S : TRUE
         IN  item_sizes[p] + 8 + SumOfBlocks(S \ {p})

\* The last call was an allocate that handed out a block.
Allocated == call.op = "allocate" /\ status = "ok" /\ call.ret # 0

\* The step is an allocate that is neither refused for its size nor stopped
\* by the capacity gate, for a size of class i.
PastGate(i) ==
    /\ call'.op = "allocate"
    /\ ~TooLarge(call'.arg)
    /\ ~GateFails(ItemSize(call'.arg))
    /\ ListIndex(ItemSize(call'.arg)) = i

\* ------------------------------------------------------------------ claims

\* C1: every handle a successful allocate returns names a block that lies
\* wholly inside the buffer: with h = handle - ptr_offset - 8,
\* h + 8 + item_size <= max_heap_size.
C1_HandleInsideBuffer ==
    Allocated =>
        LET h == call.ret - ptr_offset - 8
        IN  h + 8 + ItemSize(call.arg) <= max_heap_size

\* C2: deallocate(p) of a live block of class i, followed at once by an
\* allocate of a size of class i, returns p again, the first block of a
\* fresh heap included.
C2_RoundTrip ==
    [][(/\ call.op = "deallocate"
        /\ status = "ok"
        /\ PastGate(call.list_index))
       => (status' = "ok" /\ call'.ret = call.arg)]_vars

\* C3: total_size is the sum of item_size + 8 over the live blocks, and the
\* saturating subtraction of deallocate would clamp for no live block.
C3_Accounting ==
    /\ total_size = SumOfBlocks(allocated_ptrs)
    /\ \A p \in allocated_ptrs : total_size >= item_sizes[p] + 8

\* C3 witness: blocks have been allocated and one freed while another stays
\* live.
C3_Witness ==
    /\ call.op = "deallocate"
    /\ status = "ok"
    /\ Cardinality(allocated_ptrs) >= 2
    /\ total_size > 0

\* C4: allocate never returns a handle the ledger already holds: the live
\* handles stay distinct and the "Double allocate" assertion never fires.
C4_Uniqueness ==
    [][/\ status' # "panic: Double allocate"
       /\ (call'.op = "allocate" /\ status' = "ok" /\ call'.ret # 0) =>
            /\ (call'.ret - ptr_offset) \notin allocated_ptrs
            /\ allocated_ptrs' = allocated_ptrs \cup {call'.ret - ptr_offset}
            /\ Cardinality({AsU32(ptr_offset + p) : p \in allocated_ptrs'})
                 = Cardinality(allocated_ptrs) + 1]_vars

\* C4 witness: a block taken from a free list (its list still has a block
\* left) while other blocks are live.
C4_Witness ==
    /\ Allocated
    /\ heads[call.list_index] # 0
    /\ Cardinality(allocated_ptrs) >= 2

\* C5: allocate returns 0 exactly when size > 2^24 or item_size + 8 +
\* total_size > max_heap_size; in every other case it completes and returns
\* a nonzero handle, and it has no other outcome.
C5_ZeroIffRefused ==
    [][call'.op = "allocate" =>
         /\ status' = "ok"
         /\ (call'.ret = 0) <=>
               (TooLarge(call'.arg) \/ GateFails(ItemSize(call'.arg)))]_vars

C7_Alignment ==
    /\ ptr_offset % 8 = 0
    /\ Allocated =>
         /\ (call.ret - ptr_offset) % 8 = 0
         /\ call.ret - ptr_offset >= 8
    /\ \A p \in allocated_ptrs : p % 8 = 0 /\ p >= 8

\* C7 witness: a handle returned by a heap built with the odd offset 13,
\* which is not the first block.
C7_Witness ==
    /\ Allocated
    /\ ptr_offset = 16
    /\ call.ret > 24

\* C8: deallocate of a handle whose pointer the ledger does not hold stops
\* at the double-free check, with heads, buffer, bumper, total_size and
\* ledger as they were.
C8_DoubleFreeAborts ==
    [][(/\ call'.op = "deallocate"
        /\ (call'.arg - ptr_offset) \notin allocated_ptrs)
       => /\ status' \in {"panic: Double free", "panic: subtract with overflow"}
          /\ UNCHANGED <<heads, heap, bumper, total_size, allocated_ptrs>>]_vars

\* C8 witness: the second deallocate of a handle that was freed and not
\* handed out again.
C8_Witness ==
    /\ call.op = "deallocate"
    /\ status = "panic: Double free"
    /\ call.arg >= ptr_offset + 8
    /\ \E i \in 0..(N - 1) : \E k \in 1..Len(freed[i]) :
          freed[i][k] = call.arg - ptr_offset - 8

\* C9: total_size <= max_heap_size after every completed call.
C9_Capacity == total_size <= max_heap_size

\* C9 witness: the gate has just refused a request that the size limit
\* allows, on a heap that holds live blocks.
C9_Witness ==
    /\ call.op = "allocate"
    /\ call.ret = 0
    /\ status = "ok"
    /\ ~TooLarge(call.arg)
    /\ allocated_ptrs # {}

\* C10: every live block's header holds its size class, in 0..21, followed
\* by seven 0xFF bytes, and the sentinel assertion of deallocate never fails.
C10_LiveHeaders ==
    /\ status # "panic: sentinel"
    /\ \A p \in allocated_ptrs :
          /\ p >= 8 /\ p <= max_heap_size
          /\ heap[p - 8] \in 0..(N - 1)
          /\ heap[p - 8] = ListIndex(item_sizes[p])
          /\ \A k \in 1..7 : heap[p - k] = 255

\* C10 witness: a block is still live after two blocks of one class were
\* freed around it.
C10_Witness ==
    /\ call.op = "deallocate"
    /\ status = "ok"
    /\ allocated_ptrs # {}
    /\ \E i \in 0..(N - 1) : Len(freed[i]) >= 2

\* C11: whenever the block whose header is at offset 0 is deallocated, the
\* head of its class's list at that moment (the value written into
\* buffer[0..4]) is 0, so setting heads[i] to 0 loses no freed block.
C11_HeadZeroWhenFreeingFirst ==
    [][(/\ call'.op = "deallocate"
        /\ status' = "ok"
        /\ call'.arg - ptr_offset = 8)
       => /\ heads[call'.list_index] = 0
          /\ LeBytesToU32(heap', 0) = 0]_vars

\* C12: past the gate, a bump-path allocate takes no notice of the end of
\* the buffer: it advances bumper by item_size + 8 whatever bumper is, and
\* once bumper exceeds max_heap_size it addresses bytes past the end (the
\* write of the header stops the run).
C12_BumpIgnoresBufferEnd ==
    [][\A i \in 0..(N - 1) :
         (/\ call'.op = "allocate"
          /\ call'.arg <= MAX_POSSIBLE_ALLOCATION
          /\ ItemSize(call'.arg) + 8 + total_size <= max_heap_size
          /\ ListIndex(ItemSize(call'.arg)) = i
          /\ heads[i] = 0)
         => /\ bumper' = bumper + ItemSize(call'.arg) + 8
            /\ (bumper > max_heap_size =>
                   status' = "panic: index out of bounds")]_vars

\* C12 witness: bumper is past the end of the buffer although no allocate
\* has returned 0 and no call has broken the contract, and the last call, a
\* bump-path allocate, returned a handle.
C12_Witness ==
    /\ bumper > max_heap_size
    /\ ~refused
    /\ Allocated
    /\ call.ret - ptr_offset + ItemSize(call.arg) = bumper

\* The header offsets in the history of class i.
FreedOf(i) == {freed[i][k] : k \in 1..Len(freed[i])}

\* C13, as stated: heads[i] is 0 or the header offset of a block that is
\* freed (not live) and whose stored size-class byte buffer[heads[i]] is i.
C13_HeadInvariantAsStated ==
    \A i \in 0..(N - 1) :
        \/ heads[i] = 0
        \/ /\ heads[i] \in UNION {FreedOf(j) : j \in 0..(N - 1)}
           /\ (heads[i] + 8) \notin allocated_ptrs
           /\ heads[i] \in DOMAIN heap
           /\ heap[heads[i]] = i

\* C13, amended: heads[i] is 0 or the header offset of a block that is freed
\* (not live) and was last allocated with class i; its first four bytes hold
\* the link to the next block of the list, which is 0 or again a freed block
\* of class i, and not the size class.
C13_HeadInvariantAmended ==
    \A i \in 0..(N - 1) :
        \/ heads[i] = 0
        \/ /\ heads[i] \in FreedOf(i)
           /\ (heads[i] + 8) \notin allocated_ptrs
           /\ heads[i] + 4 <= max_heap_size
           /\ LeBytesToU32(heap, heads[i]) \in FreedOf(i) \cup {0}

\* C13 witness: the head of a class other than 0 is a freed block whose first
\* byte is not its class.
C13_Witness ==
    \E i \in 1..(N - 1) :
        /\ heads[i] # 0
        /\ heads[i] \in FreedOf(i)
        /\ heap[heads[i]] # i

\* C14: bumper never decreases; deallocate, an allocate that returns 0 and
\* an allocate served from a free list leave it unchanged; it changes only
\* on a bump-path allocate, by exactly item_size + 8.
C14_BumperMonotonic ==
    [][/\ bumper' >= bumper
       /\ call'.op = "deallocate" => bumper' = bumper
       /\ (call'.op = "allocate" /\ status' = "ok" /\ call'.ret = 0)
             => bumper' = bumper
       /\ (/\ call'.op = "allocate"
           /\ call'.list_index >= 0
           /\ heads[call'.list_index] # 0) => bumper' = bumper
       /\ bumper' # bumper =>
             /\ call'.op = "allocate"
             /\ call'.list_index >= 0
             /\ heads[call'.list_index] = 0
             /\ bumper' = bumper + ItemSize(call'.arg) + 8]_vars

\* C14 witness: an allocate handed out a block that lies below the cursor's
\* last block, so it came from a free list and bumper stayed.
C14_Witness ==
    /\ Allocated
    /\ call.ret - ptr_offset + ItemSize(call.arg) < bumper

\* C15: when the gate passes and heads[i] is 0 for the class asked for,
\* allocate(size) returns ptr_offset + bumper + 8 (bumper as it was) and
\* reserves exactly item_size + 8 bytes, so that bump allocations lie back
\* to back from offset 0.
C15_BumpPlacement ==
    [][\A i \in 0..(N - 1) :
         (PastGate(i) /\ heads[i] = 0) =>
            /\ status' = "ok"
            /\ call'.ret = ptr_offset + bumper + 8
            /\ bumper' = bumper + ItemSize(call'.arg) + 8]_vars

\* C16: a successful deallocate(p) of a live block of class i with header
\* offset h sets heads[i] to h and writes the old heads[i] into
\* buffer[h..h+4]; the other heads, bumper, ptr_offset, max_heap_size, every
\* byte outside buffer[h..h+4] (so every other block's header) and the
\* ledger entries of the other handles stay as they were.
C16_DeallocateFrame ==
    [][(call'.op = "deallocate" /\ status' = "ok") =>
         LET p == call'.arg - ptr_offset
             h == p - 8
         IN  /\ p \in allocated_ptrs
             /\ LET i == ListIndex(item_sizes[p])
                IN  /\ heads'[i] = h
                    /\ \A j \in 0..(N - 1) \ {i} : heads'[j] = heads[j]
                    /\ DOMAIN heap' = DOMAIN heap
                    /\ \A k \in DOMAIN heap \ (h..(h + 3)) : heap'[k] = heap[k]
                    /\ LeBytesToU32(heap', h) = heads[i]
             /\ UNCHANGED <<bumper, ptr_offset, max_heap_size>>
             /\ allocated_ptrs' = allocated_ptrs \ {p}]_vars

\* C16 witness: a block was pushed on a list that already had a head, while
\* another class's list is not empty and other blocks are live.
C16_Witness ==
    /\ call.op = "deallocate"
    /\ status = "ok"
    /\ LeBytesToU32(heap, call.arg - ptr_offset - 8) # 0
    /\ \E j \in 0..(N - 1) : j # call.list_index /\ heads[j] # 0
    /\ allocated_ptrs # {}

RECURSIVE Walk(_, _)
\* The header offsets met by following the inline links from h, as allocate
\* follows one link per pop, until 0; -1 stands for a link that leaves the
\* buffer or a walk that has not ended after `fuel` blocks.
Walk(h, fuel) ==
    IF h = 0 THEN << >>
    ELSE IF fuel = 0 \/ h + 4 > max_heap_size THEN << -1 >>
    ELSE << h >> \o Walk(LeBytesToU32(heap, h), fuel - 1)

\* The chain of list i. Headers are at least 16 bytes apart, so a chain
\* without a cycle is shorter than max_heap_size.
Chain(i) == Walk(heads[i], max_heap_size)

\* The header offsets on the chain of list i.
ChainSet(i) == {Chain(i)[k] : k \in 1..Len(Chain(i))}

\* Whether the byte ranges [a, a + m) and [b, b + n) share no byte.
RangesDisjoint(a, m, b, n) == a + m <= b \/ b + n <= a

\* C17: the byte ranges [h, h + 8 + item_size) of the live blocks are
\* pairwise disjoint, and none of them meets the range of a block reachable
\* from a free-list head.
C17_NonOverlap ==
    /\ \A p \in allocated_ptrs : \A q \in allocated_ptrs \ {p} :
          RangesDisjoint(p - 8, 8 + item_sizes[p], q - 8, 8 + item_sizes[q])
    /\ \A p \in allocated_ptrs : \A i \in 0..(N - 1) : \A h \in ChainSet(i) :
          RangesDisjoint(p - 8, 8 + item_sizes[p],
                         h, 8 + GetItemSizeFromIndex(i))

\* C17 witness: live blocks of two sizes and a block on a free list, after a
\* block was handed out again.
C17_Witness ==
    /\ Allocated
    /\ call.ret - ptr_offset + ItemSize(call.arg) < bumper
    /\ \E p, q \in allocated_ptrs : item_sizes[p] # item_sizes[q]
    /\ \E i \in 0..(N - 1) : Chain(i) # << >>

\* C18: the links from heads[i] form a finite chain without a cycle that
\* ends at 0; every block on it was last allocated with class i and is not
\* live; no block is twice on one chain or on the chains of two classes.
C18_FreeListsWellFormed ==
    /\ \A i \in 0..(N - 1) :
          /\ -1 \notin ChainSet(i)
          /\ Cardinality(ChainSet(i)) = Len(Chain(i))
          /\ ChainSet(i) \subseteq FreedOf(i)
          /\ \A h \in ChainSet(i) : (h + 8) \notin allocated_ptrs
    /\ \A i \in 0..(N - 1) : \A j \in 0..(N - 1) \ {i} :
          ChainSet(i) \cap ChainSet(j) = {}

\* C18 witness: one list holds two blocks and another list is not empty.
C18_Witness ==
    \E i \in 0..(N - 1) : \E j \in 0..(N - 1) \ {i} :
        Len(Chain(i)) >= 2 /\ Chain(j) # << >>

\* C19: an allocate that returns 0 leaves bumper, heads, the buffer,
\* total_size and the ledger exactly as they were.
C19_FailedAllocateChangesNothing ==
    [][(call'.op = "allocate" /\ status' = "ok" /\ call'.ret = 0)
       => UNCHANGED <<bumper, heads, heap, total_size, allocated_ptrs>>]_vars

\* C19 witness: the gate refused a request on a heap with live blocks, freed
\* blocks and an advanced cursor.
C19_Witness ==
    /\ call.op = "allocate"
    /\ status = "ok"
    /\ call.ret = 0
    /\ call.arg <= MAX_POSSIBLE_ALLOCATION
    /\ allocated_ptrs # {}
    /\ \E i \in 0..(N - 1) : heads[i] # 0

====
